---- MODULE Spec2Model ----
(***************************************************************************)
(* A model of the chat_with_docs ingestion pipeline and vector-store       *)
(* lifecycle:                                                              *)
(*   - DocumentProcessor.process_file / process_url with the three-tier    *)
(*     chunking cascade (document_processor.py);                           *)
(*   - VectorStoreManager create / add / save / load / delete / count      *)
(*     (vector_store.py).                                                  *)
(* Texts are sequences of one-character strings.                           *)
(***************************************************************************)
EXTENDS Integers, Sequences, FiniteSets, TLC

\* ------------------------------------------------------------------------
\* Bounds of the model
\* ------------------------------------------------------------------------
\* longest text handed to the extractors
MaxLen == 4
\* largest configured chunk size (Config.CHUNK_SIZE is drawn from 1..MaxChunkSize)
MaxChunkSize == 3
\* largest configured chunk overlap (Config.CHUNK_OVERLAP is drawn from 0..MaxOverlap)
MaxOverlap == 1
\* largest number of entries the vector store is driven to
MaxStore == 2
\* largest number of documents handed to create/add in one call
MaxBatch == 1
\* largest k handed explicitly to a similarity search
MaxK == 2
\* how far past the preview length the longest retrieved chunk goes
MaxExtra == 5
\* longest chat history handed to chat_with_history or held by a session
MaxHistory == 4

\* ------------------------------------------------------------------------
\* Program constants
\* ------------------------------------------------------------------------
\* document_processor.py:108  "if len(text) > 1000000"
TEXT_LIMIT == 1000000
\* config.py:29  TOP_K_RESULTS = 4
TOP_K_RESULTS == 4
\* qa_system.py:79  "doc.page_content[:200] ... if len(doc.page_content) > 200"
SOURCE_PREVIEW == 200
\* qa_system.py:109  "chat_history[-3:]"
HISTORY_WINDOW == 3

VARIABLES
    \* ---- DocumentProcessor ----
    chunk_size,     \* Config.CHUNK_SIZE as captured by the splitters
    chunk_overlap,  \* Config.CHUNK_OVERLAP as captured by the splitters
    text_limit,     \* the ceiling on the text of a web page (line 108)
    call,           \* the last process_file / process_url call and its inputs
    text,           \* the text handed to the chunker by the last call
    tried,          \* the chunking tiers the last call ran, in order
    chunks,         \* the raw chunks the last call obtained
    documents,      \* the documents the last call returned
    result,         \* "ok" or the error the last call raised
    \* ---- VectorStoreManager ----
    vector_store,   \* self.vector_store: None or the FAISS store's entries
    disk,           \* the directory at self.store_path
    last,           \* the last manager operation, its inputs, result, pre-state
    prev,           \* the operation before the last one (name and result)
    prev2_saved,    \* whether the operation before prev was a completed save
    saved,          \* the store contents seen by the last completed save
    fs_failed,      \* whether a filesystem operation of the manager has raised
    \* ---- similarity search, QASystem and its callers ----
    search,         \* the last similarity_search(_with_score) call and its outcome
    qa,             \* the last ask_question / chat_with_history call and what it did
    response,       \* the dict the last QASystem call returned
    chat_history,   \* the chat history list held by the CLI / web session
    session,        \* the front end of the session and where it is: "cli"
                    \* (at the menu), "cli_start", "web" (between reruns),
                    \* "web_run" (in a rerun, manager loaded), or "none"
    vector_store_ready  \* st.session_state.vector_store_ready

chunkVars == <<chunk_size, chunk_overlap, text_limit, call, text, tried, chunks, documents, result>>
storeVars == <<vector_store, disk, last, prev, prev2_saved, saved, fs_failed>>
qaVars == <<search, qa, response, chat_history, session, vector_store_ready>>
vars == <<chunk_size, chunk_overlap, text_limit, call, text, tried, chunks, documents, result,
          vector_store, disk, last, prev, prev2_saved, saved, fs_failed,
          search, qa, response, chat_history, session, vector_store_ready>>

\* ------------------------------------------------------------------------
\* Strings
\* ------------------------------------------------------------------------
NL == "\n"
SP == " "
Alphabet == {"a", "b", SP, NL}
Texts == UNION {[1..n -> Alphabet] : n \in 0..MaxLen}

\* str.strip() with no argument removes leading and trailing whitespace
IsSpace(c) == c \in {SP, NL}

RECURSIVE LStrip(_)
LStrip(s) == IF s # <<>> /\ IsSpace(Head(s)) THEN LStrip(Tail(s)) ELSE s

RECURSIVE RStrip(_)
RStrip(s) ==
    IF s # <<>> /\ IsSpace(s[Len(s)]) THEN RStrip(SubSeq(s, 1, Len(s) - 1)) ELSE s

Strip(s) == RStrip(LStrip(s))

RECURSIVE Concat(_)
Concat(ss) == IF ss = <<>> THEN <<>> ELSE Head(ss) \o Concat(Tail(ss))

\* sep.join(parts)
RECURSIVE Join(_, _)
Join(parts, sep) ==
    IF parts = <<>> THEN <<>>
    ELSE IF Len(parts) = 1 THEN Head(parts)
    ELSE Head(parts) \o sep \o Join(Tail(parts), sep)

\* re.split(re.escape(sep), t): the pieces between leftmost non-overlapping
\* occurrences of sep, empty pieces included
RECURSIVE ReSplitFrom(_, _, _)
ReSplitFrom(t, sep, cur) ==
    IF t = <<>> THEN <<cur>>
    ELSE IF Len(t) >= Len(sep) /\ SubSeq(t, 1, Len(sep)) = sep
         THEN <<cur>> \o ReSplitFrom(SubSeq(t, Len(sep) + 1, Len(t)), sep, <<>>)
         ELSE ReSplitFrom(Tail(t), sep, Append(cur, Head(t)))

NonEmpty(ss) == SelectSeq(ss, LAMBDA s : s # <<>>)

\* _split_text_with_regex(text, separator, keep_separator=False)
SplitTextWithRegex(t, sep) == NonEmpty(ReSplitFrom(t, sep, <<>>))

\* str.splitlines(): like splitting on the line break, without a trailing
\* empty piece
SplitLines(t) ==
    LET parts == ReSplitFrom(t, <<NL>>, <<>>)
    IN IF parts[Len(parts)] = <<>> THEN SubSeq(parts, 1, Len(parts) - 1) ELSE parts

\* ------------------------------------------------------------------------
\* CharacterTextSplitter(chunk_size, chunk_overlap, separator, len)
\* ------------------------------------------------------------------------
\* TextSplitter._join_docs: join, strip, and None (here <<>>) when empty
JoinDocs(docs, sep) == Strip(Join(docs, sep))

AppendDoc(docs, doc) == IF doc = <<>> THEN docs ELSE Append(docs, doc)

\* the "while total > chunk_overlap or (... > chunk_size and total > 0)" loop
\* of TextSplitter._merge_splits, popping splits off the front of current_doc
RECURSIVE PopOverlap(_, _, _, _, _, _)
PopOverlap(cur, total, len, seplen, size, overlap) ==
    IF \/ total > overlap
       \/ /\ total + len + (IF Len(cur) > 0 THEN seplen ELSE 0) > size
          /\ total > 0
    THEN PopOverlap(Tail(cur),
                    total - (Len(Head(cur)) + (IF Len(cur) > 1 THEN seplen ELSE 0)),
                    len, seplen, size, overlap)
    ELSE [cur |-> cur, total |-> total]

\* the "for d in splits" loop of TextSplitter._merge_splits and its final join
RECURSIVE MergeLoop(_, _, _, _, _, _, _)
MergeLoop(splits, sep, size, overlap, docs, cur, total) ==
    IF splits = <<>> THEN AppendDoc(docs, JoinDocs(cur, sep))
    ELSE LET d == Head(splits)
             len == Len(d)
             seplen == Len(sep)
             over == total + len + (IF Len(cur) > 0 THEN seplen ELSE 0) > size
             flush == over /\ Len(cur) > 0
             docs1 == IF flush THEN AppendDoc(docs, JoinDocs(cur, sep)) ELSE docs
             p == IF flush THEN PopOverlap(cur, total, len, seplen, size, overlap)
                  ELSE [cur |-> cur, total |-> total]
             cur2 == Append(p.cur, d)
             total2 == p.total + len + (IF Len(cur2) > 1 THEN seplen ELSE 0)
         IN MergeLoop(Tail(splits), sep, size, overlap, docs1, cur2, total2)

MergeSplits(splits, sep, size, overlap) ==
    MergeLoop(splits, sep, size, overlap, <<>>, <<>>, 0)

\* CharacterTextSplitter.split_text
SplitText(t, sep, size, overlap) ==
    MergeSplits(SplitTextWithRegex(t, sep), sep, size, overlap)

\* self.text_splitter: separator "\n\n"
PrimarySeparator == <<NL, NL>>
\* self.simple_splitter: separator "\n"
SecondarySeparator == <<NL>>

\* ------------------------------------------------------------------------
\* The chunking cascade of process_file / process_url
\* ------------------------------------------------------------------------
Min(a, b) == IF a < b THEN a ELSE b

\* range(0, len(text), chunk_size), as 0-based start offsets
RangeStarts(n, size) == [k \in 1..((n + size - 1) \div size) |-> (k - 1) * size]

\* a slicing that keeps only the full windows and loses the shorter last one
ManualChunksFullOnly(t, size) ==
    [k \in 1..(Len(t) \div size) |-> SubSeq(t, (k - 1) * size + 1, k * size)]

\* [text[i:i+chunk_size] for i in range(0, len(text), chunk_size)]
ManualChunks(t, size) ==
    LET starts == RangeStarts(Len(t), size)
    IN [k \in 1..Len(starts) |->
            SubSeq(t, starts[k] + 1, Min(starts[k] + size, Len(t)))]

\* a cascade that goes straight to manual chunking when the primary splitter
\* raises, never trying the simple splitter
CascadeSkippingSecondary(t, size, overlap, pfail, sfail) ==
    IF ~pfail
    THEN [tried |-> <<"primary">>,
          chunks |-> SplitText(t, PrimarySeparator, size, overlap)]
    ELSE [tried |-> <<"primary", "manual">>,
          chunks |-> ManualChunks(t, size)]

\* the nested try/except: primary splitter, then the simple splitter, then
\* manual chunking; pfail / sfail say whether the splitter raises when called
Cascade(t, size, overlap, pfail, sfail) ==
    IF ~pfail
    THEN [tried |-> <<"primary">>,
          chunks |-> SplitText(t, PrimarySeparator, size, overlap)]
    ELSE IF ~sfail
    THEN [tried |-> <<"primary", "secondary">>,
          chunks |-> SplitText(t, SecondarySeparator, size, overlap)]
    ELSE [tried |-> <<"primary", "secondary", "manual">>,
          chunks |-> ManualChunks(t, size)]

\* "for i, chunk in enumerate(chunks): if chunk.strip(): ... chunk_id = i ...
\*  page_content = chunk.strip()"
RECURSIVE MakeDocumentsFrom(_, _)
MakeDocumentsFrom(cs, i) ==
    IF cs = <<>> THEN <<>>
    ELSE (IF Strip(Head(cs)) # <<>>
          THEN <<[page_content |-> Strip(Head(cs)), chunk_id |-> i]>>
          ELSE <<>>)
         \o MakeDocumentsFrom(Tail(cs), i + 1)

\* a document loop that tests chunk.strip() but stores the chunk untrimmed
RECURSIVE MakeDocumentsUntrimmed(_)
MakeDocumentsUntrimmed(cs) ==
    IF cs = <<>> THEN <<>>
    ELSE LET front == SubSeq(cs, 1, Len(cs) - 1)
             c == cs[Len(cs)]
         IN MakeDocumentsUntrimmed(front)
            \o (IF Strip(c) # <<>>
                THEN <<[page_content |-> c, chunk_id |-> Len(cs) - 1]>>
                ELSE <<>>)

MakeDocuments(cs) == MakeDocumentsFrom(cs, 0)

\* ------------------------------------------------------------------------
\* DocumentProcessor
\* ------------------------------------------------------------------------
\* suffixes of the file paths handed to process_file
Suffixes == {".pdf", ".docx", ".txt", ".md", ".html", ".TXT", ".csv", ".CSV", ""}

\* Path(file_path).suffix.lower()
Lower(suffix) ==
    IF suffix = ".TXT" THEN ".txt" ELSE IF suffix = ".CSV" THEN ".csv" ELSE suffix

\* config.py:26  SUPPORTED_EXTENSIONS
SUPPORTED_EXTENSIONS == {".pdf", ".docx", ".txt", ".html", ".md"}

\* an if/elif chain with no branch for .md
DispatchedWithoutMd == {".pdf", ".docx", ".txt", ".html"}

\* the extensions the if/elif chain of process_file dispatches on
DispatchedExtensions == {".pdf", ".docx", ".txt", ".md", ".html"}

\* outcomes of requests.get(...) followed by response.raise_for_status()
FetchOutcomes == {"ok", "network_failure", "http_error_status"}

\* a fetched page: the text of its script and style elements and the text of
\* the rest of the document
ScriptTexts == {<<>>, <<"a">>}
Pages == {[visible |-> t, script |-> s] : t \in Texts, s \in ScriptTexts}
NoPage == [visible |-> <<>>, script |-> <<>>]

\* get_text() of a page whose script and style elements are still in the tree
GetTextKeepingScripts(page) == page.script \o page.visible

\* soup.get_text() once every script and style element is decomposed
GetText(page) == page.visible

\* call.read: whether the extractor was handed the file
NoCall == [op |-> "none", suffix |-> "", read |-> FALSE, readable |-> FALSE,
           fetch |-> "", parse |-> "", page |-> NoPage,
           pfail |-> FALSE, sfail |-> FALSE]

\* the exceptions of opening the file: an OSError (missing, a directory, no
\* permission) or the plain ValueError of a path with an embedded null byte
OpenErrors == {"OSError", "ValueError"}

\* the exceptions an extractor lets through while it reads the file
\* (process_file has no try around the extraction): those of opening it; a
\* .txt, .md or .html file that is not UTF-8 raises UnicodeDecodeError (a
\* ValueError); the PDF and DOCX readers raise their library's own error on a
\* file they cannot parse
ExtractorErrors(ext) ==
    OpenErrors \cup
    (IF ext \in {".txt", ".md", ".html"} THEN {"UnicodeDecodeError"}
     ELSE IF ext = ".pdf" THEN {"PdfReadError"}
     ELSE {"PackageNotFoundError"})

\* outcomes of BeautifulSoup(response.content, 'html.parser'): a document, a
\* RecursionError, or another exception
ParseOutcomes == {"ok", "recursion_error", "parser_error"}

\* the outcomes of the parser in _extract_html_text; the other extractors
\* call no HTML parser
FileParseOutcomes(ext) == IF ext = ".html" THEN ParseOutcomes ELSE {""}

\* the exception a failed parse of an HTML file raises: process_file passes
\* it on as it is
FileParseError(parse) ==
    IF parse = "recursion_error" THEN "RecursionError" ELSE "ParserError"

Ok == [status |-> "ok", error |-> "", detail |-> ""]
Raised(error, detail) == [status |-> "raised", error |-> error, detail |-> detail]

\* str(e) of the requests exception: a connection failure raised by
\* requests.get, or the HTTPError raised by raise_for_status
FetchMessage(fetch) ==
    IF fetch = "network_failure" THEN "ConnectionError" ELSE "HTTPError: status"

\* "except requests.RequestException as e":
\* Exception(f"Network error processing URL {url}: {str(e)}")
NetworkError(fetch) ==
    Raised("Exception", <<"Network error processing URL", FetchMessage(fetch)>>)

\* ValueError(f"Unsupported file type: {file_extension}")
UnsupportedError(ext) == Raised("ValueError", <<"Unsupported file type", ext>>)

\* Exception("No text content found in the webpage") as re-raised by
\* "except Exception as e": Exception(f"Error processing URL {url}: {str(e)}")
NoTextError ==
    Raised("Exception", <<"Error processing URL", "No text content found in the webpage">>)

\* "except RecursionError": Exception(f"Recursion error processing URL {url}.
\* The webpage content may be too complex or contain circular references.")
RecursionErrorRaised ==
    Raised("Exception", <<"Recursion error processing URL", "">>)

\* "except Exception as e" for an exception of the parser:
\* Exception(f"Error processing URL {url}: {str(e)}")
ParserErrorRaised ==
    Raised("Exception", <<"Error processing URL", "parser error">>)

\* the line clean-up of process_url: strip every line, drop the empty ones,
\* join with "\n"
RECURSIVE StripLines(_)
StripLines(ls) ==
    IF ls = <<>> THEN <<>> ELSE <<Strip(Head(ls))>> \o StripLines(Tail(ls))

CleanText(t) == Join(NonEmpty(StripLines(SplitLines(t))), <<NL>>)

\* a ceiling that is never applied
TruncateNever(t) == t

\* "if len(text) > 1000000: text = text[:1000000]"
Truncate(t) == IF Len(t) > text_limit THEN SubSeq(t, 1, text_limit) ELSE t

\* DocumentProcessor.__init__: both splitters capture the configured sizes
\* (TextSplitter.__init__ rejects an overlap larger than the chunk size)
InitProcessor ==
    /\ chunk_size \in 1..MaxChunkSize
    /\ chunk_overlap \in 0..MaxOverlap
    /\ chunk_overlap <= chunk_size
    /\ text_limit = TEXT_LIMIT
    /\ call = NoCall
    /\ text = <<>>
    /\ tried = <<>>
    /\ chunks = <<>>
    /\ documents = <<>>
    /\ result = Ok

\* a call that raised before the chunker was reached
Aborted(c, error, detail) ==
    /\ call' = c
    /\ text' = <<>>
    /\ tried' = <<>>
    /\ chunks' = <<>>
    /\ documents' = <<>>
    /\ result' = Raised(error, detail)

\* DocumentProcessor.process_file(file_path)
\*   suffix    the suffix of file_path
\*   readable  whether the extractor can read the file; when it cannot, the
\*             exception it raises reaches the caller
\*   parse     the outcome of the HTML parser on a readable .html file; its
\*             exception reaches the caller too
\*   extracted the text the extractor returns
\*   pfail, sfail  whether the primary / simple splitter raises when called
ProcessFile ==
    /\ call.op = "none"
    /\ \E suffix \in Suffixes :
         LET ext == Lower(suffix) IN
         IF ext \notin DispatchedExtensions
         THEN Aborted([NoCall EXCEPT !.op = "process_file", !.suffix = suffix],
                      UnsupportedError(ext).error, UnsupportedError(ext).detail)
         ELSE \E readable \in BOOLEAN :
              IF ~readable
              THEN \E error \in ExtractorErrors(ext) :
                   Aborted([NoCall EXCEPT !.op = "process_file", !.suffix = suffix,
                                          !.read = TRUE],
                           error, <<"extractor", ext>>)
              ELSE \E parse \in FileParseOutcomes(ext) :
                   IF parse \in {"recursion_error", "parser_error"}
                   THEN Aborted([NoCall EXCEPT !.op = "process_file", !.suffix = suffix,
                                               !.read = TRUE, !.readable = TRUE,
                                               !.parse = parse],
                                FileParseError(parse), <<"parser", ext>>)
                   ELSE
                   \E extracted \in Texts, pfail \in BOOLEAN, sfail \in BOOLEAN :
                   LET c == Cascade(extracted, chunk_size, chunk_overlap, pfail, sfail)
                   IN /\ call' = [op |-> "process_file", suffix |-> suffix,
                                  read |-> TRUE, readable |-> TRUE, fetch |-> "",
                                  parse |-> parse, page |-> NoPage,
                                  pfail |-> pfail, sfail |-> sfail]
                      /\ text' = extracted
                      /\ tried' = c.tried
                      /\ chunks' = c.chunks
                      /\ documents' = MakeDocuments(c.chunks)
                      /\ result' = Ok
    /\ UNCHANGED <<chunk_size, chunk_overlap, text_limit>>
    /\ UNCHANGED storeVars
    /\ UNCHANGED qaVars

\* DocumentProcessor.process_url(url)
\*   fetch  the outcome of requests.get and raise_for_status
\*   parse  the outcome of the HTML parser
\*   page   the document parsed from the response
ProcessUrl ==
    /\ call.op = "none"
    /\ \E fetch \in FetchOutcomes :
         IF fetch # "ok"
         THEN Aborted([NoCall EXCEPT !.op = "process_url", !.fetch = fetch],
                      NetworkError(fetch).error, NetworkError(fetch).detail)
         ELSE \E parse \in ParseOutcomes :
         IF parse = "recursion_error"
         THEN Aborted([NoCall EXCEPT !.op = "process_url", !.fetch = fetch,
                                     !.parse = parse],
                      RecursionErrorRaised.error, RecursionErrorRaised.detail)
         ELSE IF parse = "parser_error"
         THEN Aborted([NoCall EXCEPT !.op = "process_url", !.fetch = fetch,
                                     !.parse = parse],
                      ParserErrorRaised.error, ParserErrorRaised.detail)
         ELSE \E page \in Pages, pfail \in BOOLEAN, sfail \in BOOLEAN :
              LET cleaned == Truncate(CleanText(GetText(page)))
                  c == Cascade(cleaned, chunk_size, chunk_overlap, pfail, sfail)
                  docs == MakeDocuments(c.chunks)
                  this == [op |-> "process_url", suffix |-> "", read |-> FALSE,
                           readable |-> FALSE, fetch |-> "ok", parse |-> "ok",
                           page |-> page,
                           pfail |-> pfail, sfail |-> sfail]
              IN IF Strip(cleaned) = <<>>
                 THEN Aborted([this EXCEPT !.pfail = FALSE, !.sfail = FALSE],
                              NoTextError.error, NoTextError.detail)
                 ELSE /\ call' = this
                      /\ text' = cleaned
                      /\ tried' = c.tried
                      /\ chunks' = c.chunks
                      /\ IF c.chunks = <<>>
                         THEN /\ documents' = <<>>
                              /\ result' = Raised("Exception",
                                   <<"Error processing URL", "No text chunks generated from the webpage">>)
                         ELSE IF docs = <<>>
                         THEN /\ documents' = <<>>
                              /\ result' = Raised("Exception",
                                   <<"Error processing URL", "No valid documents created from the webpage">>)
                         ELSE /\ documents' = docs
                              /\ result' = Ok
    /\ UNCHANGED <<chunk_size, chunk_overlap, text_limit>>
    /\ UNCHANGED storeVars
    /\ UNCHANGED qaVars

\* ------------------------------------------------------------------------
\* VectorStoreManager
\* ------------------------------------------------------------------------
\* the chunks handed to the manager, and the lists of them one call takes
Docs == {"d1", "d2"}
Batches == UNION {[1..n -> Docs] : n \in 0..MaxBatch}

\* self.vector_store: None, or a FAISS store with its entries in index order
None == [init |-> FALSE, entries |-> <<>>]
Faiss(es) == [init |-> TRUE, entries |-> es]

\* the directory at Config.VECTOR_DB_PATH: absent, holding a snapshot
\* (index.faiss + index.pkl), or present without a readable snapshot
NoDir == [exists |-> FALSE, valid |-> FALSE, entries |-> <<>>]
Snapshot(es) == [exists |-> TRUE, valid |-> TRUE, entries |-> es]
BrokenDir == [exists |-> TRUE, valid |-> FALSE, entries |-> <<>>]

\* a build that keeps a store that is already there
FromDocumentsKeepingOld(docs) == IF vector_store.init THEN vector_store ELSE Faiss(docs)

\* a build that indexes nothing
FromDocumentsEmpty(docs) == Faiss(<<>>)

\* FAISS.from_documents(documents, embeddings)
FromDocuments(docs) == Faiss(docs)

\* an add that rebuilds the index from the new documents alone
AddToIndexRebuilding(vs, docs) == Faiss(docs)

\* FAISS.add_documents(documents) on an existing store
AddToIndex(vs, docs) == Faiss(vs.entries \o docs)

\* a save that appends to the snapshot already in the directory
SaveLocalAppending(d, vs) == Snapshot(d.entries \o vs.entries)

\* FAISS.save_local(path) into directory d: writes the index and the docstore,
\* overwriting what a snapshot there held
SaveLocal(d, vs) == Snapshot(vs.entries)

\* a removal that empties the directory but leaves it in place
RmtreeContentsOnly(d) == BrokenDir

\* shutil.rmtree(path): the directory and everything in it are gone
Rmtree(d) == NoDir

\* a load that reads the docstore but loses the last index entry
LoadLocalTruncating(d) == Faiss(SubSeq(d.entries, 1, Len(d.entries) - 1))

\* FAISS.load_local(path, embeddings, allow_dangerous_deserialization=True)
LoadLocal(d) == Faiss(d.entries)

\* VectorStoreManager.get_document_count
GetDocumentCount(vs) == IF ~vs.init THEN 0 ELSE Len(vs.entries)

NoOp == [op |-> "none", ret |-> ""]

\* what a call that built the store returns: create_vector_store returns
\* self.vector_store, add_documents returns None
ReturnedStore == "<FAISS object>"
BuildReturns(name) == IF name = "create_vector_store" THEN ReturnedStore ELSE "None"

Op(name, docs, ret, embedded, log) ==
    [op |-> name, docs |-> docs, ret |-> ret, embedded |-> embedded, log |-> log,
     pre_store |-> vector_store, pre_disk |-> disk]

\* bookkeeping shared by every manager operation
Record(o) ==
    /\ last' = o
    /\ prev' = [op |-> last.op, ret |-> last.ret]
    /\ prev2_saved' = (prev.op = "save_vector_store" /\ prev.ret = "None")
    /\ fs_failed' = (fs_failed \/ o.ret = "OSError")

\* VectorStoreManager.__init__
InitManager ==
    /\ vector_store = None
    /\ disk = NoDir
    /\ last = [op |-> "none", docs |-> <<>>, ret |-> "", embedded |-> FALSE,
               log |-> "", pre_store |-> None, pre_disk |-> NoDir]
    /\ prev = NoOp
    /\ prev2_saved = FALSE
    /\ fs_failed = FALSE
    /\ saved = <<>>

\* a fresh VectorStoreManager() over the same store path
NewManager ==
    /\ vector_store' = None
    /\ Record(Op("__init__", <<>>, "None", FALSE, ""))
    /\ UNCHANGED <<disk, saved>>
    /\ UNCHANGED chunkVars
    /\ UNCHANGED qaVars

\* a create without the "if not documents" check
CreateBodyUnchecked(name, docs, embed_ok) ==
    IF ~embed_ok
    THEN /\ Record(Op(name, docs, "EmbeddingError", TRUE, ""))
         /\ UNCHANGED vector_store
    ELSE /\ vector_store' = FromDocuments(docs)
         /\ Record(Op(name, docs, BuildReturns(name), TRUE, ""))

\* the body of create_vector_store(documents); embed_ok says whether the
\* embedding capability answers
CreateBody(name, docs, embed_ok) ==
    IF docs = <<>>
    THEN /\ Record(Op(name, docs,
                      "ValueError: No documents provided to create vector store",
                      FALSE, ""))
         /\ UNCHANGED vector_store
    ELSE IF ~embed_ok
    THEN /\ Record(Op(name, docs, "EmbeddingError", TRUE, ""))
         /\ UNCHANGED vector_store
    ELSE /\ vector_store' = FromDocuments(docs)
         /\ Record(Op(name, docs, BuildReturns(name), TRUE, ""))

\* VectorStoreManager.create_vector_store(documents)
CreateVectorStore ==
    /\ \E docs \in Batches, embed_ok \in BOOLEAN :
         CreateBody("create_vector_store", docs, embed_ok)
    /\ UNCHANGED <<disk, saved>>
    /\ UNCHANGED chunkVars
    /\ UNCHANGED qaVars

\* an add without the "if not documents: return" check, creating the store
\* from whatever list it is given
AddBodyNoEarlyReturn(docs, embed_ok) ==
    IF ~embed_ok
    THEN /\ Record(Op("add_documents", docs, "EmbeddingError", TRUE, ""))
         /\ UNCHANGED vector_store
    ELSE /\ vector_store' = IF ~vector_store.init THEN FromDocuments(docs)
                                                  ELSE AddToIndex(vector_store, docs)
         /\ Record(Op("add_documents", docs, "None", TRUE, ""))

\* the body of add_documents(documents)
AddBody(docs, embed_ok) ==
    IF docs = <<>>
    THEN /\ Record(Op("add_documents", docs, "None", FALSE, ""))
         /\ UNCHANGED vector_store
    ELSE IF ~vector_store.init
    THEN CreateBody("add_documents", docs, embed_ok)
    ELSE IF ~embed_ok
    THEN /\ Record(Op("add_documents", docs, "EmbeddingError", TRUE, ""))
         /\ UNCHANGED vector_store
    ELSE /\ vector_store' = AddToIndex(vector_store, docs)
         /\ Record(Op("add_documents", docs, "None", TRUE, ""))

\* VectorStoreManager.add_documents(documents)
AddDocuments ==
    /\ \E docs \in Batches, embed_ok \in BOOLEAN :
         /\ Len(vector_store.entries) + Len(docs) <= MaxStore
         /\ AddBody(docs, embed_ok)
    /\ UNCHANGED <<disk, saved>>
    /\ UNCHANGED chunkVars
    /\ UNCHANGED qaVars

\* VectorStoreManager.save_vector_store(); fs_ok says whether os.makedirs and
\* save_local succeed. When one of them fails the directory is as it was or
\* is left without a readable snapshot.
SaveVectorStore ==
    /\ IF ~vector_store.init
       THEN /\ Record(Op("save_vector_store", <<>>,
                         "ValueError: No vector store to save", FALSE, ""))
            /\ UNCHANGED <<disk, saved>>
       ELSE \E fs_ok \in BOOLEAN :
            IF fs_ok
            THEN /\ disk' = SaveLocal(disk, vector_store)
                 /\ saved' = vector_store.entries
                 /\ Record(Op("save_vector_store", <<>>, "None", FALSE, "saved"))
            ELSE /\ disk' \in {disk, BrokenDir}
                 /\ Record(Op("save_vector_store", <<>>, "OSError", FALSE, ""))
                 /\ UNCHANGED saved
    /\ UNCHANGED vector_store
    /\ UNCHANGED chunkVars
    /\ UNCHANGED qaVars

\* a load without the try/except: a directory that does not deserialize makes
\* the call raise
LoadVectorStoreUncaught ==
    /\ IF disk.exists
       THEN IF disk.valid
            THEN /\ vector_store' = LoadLocal(disk)
                 /\ Record(Op("load_vector_store", <<>>, "True", FALSE, "loaded"))
            ELSE /\ Record(Op("load_vector_store", <<>>, "RuntimeError", FALSE, ""))
                 /\ UNCHANGED vector_store
       ELSE /\ Record(Op("load_vector_store", <<>>, "False", FALSE, ""))
            /\ UNCHANGED vector_store
    /\ UNCHANGED <<disk, saved>>
    /\ UNCHANGED chunkVars
    /\ UNCHANGED qaVars

\* a load that treats a failure as "store absent" and drops the store in memory
LoadVectorStoreResetting ==
    /\ IF disk.exists /\ disk.valid
       THEN /\ vector_store' = LoadLocal(disk)
            /\ Record(Op("load_vector_store", <<>>, "True", FALSE, "loaded"))
       ELSE /\ vector_store' = None
            /\ Record(Op("load_vector_store", <<>>, "False", FALSE,
                         IF disk.exists THEN "Error loading vector store" ELSE ""))
    /\ UNCHANGED <<disk, saved>>
    /\ UNCHANGED chunkVars
    /\ UNCHANGED qaVars

\* VectorStoreManager.load_vector_store()
LoadVectorStore ==
    /\ IF disk.exists
       THEN IF disk.valid
            THEN /\ vector_store' = LoadLocal(disk)
                 /\ Record(Op("load_vector_store", <<>>, "True", FALSE, "loaded"))
            ELSE /\ Record(Op("load_vector_store", <<>>, "False", FALSE,
                              "Error loading vector store"))
                 /\ UNCHANGED vector_store
       ELSE /\ Record(Op("load_vector_store", <<>>, "False", FALSE, ""))
            /\ UNCHANGED vector_store
    /\ UNCHANGED <<disk, saved>>
    /\ UNCHANGED chunkVars
    /\ UNCHANGED qaVars

\* a delete that resets the store in memory before it touches the directory
DeleteVectorStoreResettingFirst ==
    /\ vector_store' = None
    /\ IF disk.exists
       THEN \E rm_ok \in BOOLEAN :
            IF rm_ok
            THEN /\ disk' = Rmtree(disk)
                 /\ Record(Op("delete_vector_store", <<>>, "None", FALSE, "deleted"))
            ELSE /\ disk' \in {disk, BrokenDir}
                 /\ Record(Op("delete_vector_store", <<>>, "OSError", FALSE, ""))
       ELSE /\ Record(Op("delete_vector_store", <<>>, "None", FALSE, ""))
            /\ UNCHANGED disk
    /\ UNCHANGED saved
    /\ UNCHANGED chunkVars
    /\ UNCHANGED qaVars

\* VectorStoreManager.delete_vector_store(); rm_ok says whether shutil.rmtree
\* succeeds. When it fails the directory is as it was or partly removed.
DeleteVectorStore ==
    /\ IF disk.exists
       THEN \E rm_ok \in BOOLEAN :
            IF rm_ok
            THEN /\ disk' = Rmtree(disk)
                 /\ vector_store' = None
                 /\ Record(Op("delete_vector_store", <<>>, "None", FALSE, "deleted"))
            ELSE /\ disk' \in {disk, BrokenDir}
                 /\ Record(Op("delete_vector_store", <<>>, "OSError", FALSE, ""))
                 /\ UNCHANGED vector_store
       ELSE /\ vector_store' = None
            /\ Record(Op("delete_vector_store", <<>>, "None", FALSE, ""))
            /\ UNCHANGED disk
    /\ UNCHANGED saved
    /\ UNCHANGED chunkVars
    /\ UNCHANGED qaVars

\* ------------------------------------------------------------------------
\* VectorStoreManager.similarity_search / similarity_search_with_score
\* ------------------------------------------------------------------------
\* the k argument: not given (None) or a number
NoK == [given |-> FALSE, value |-> 0]
KArgs == {NoK} \cup {[given |-> TRUE, value |-> v] : v \in 0..MaxK}

\* a default that is applied only when k is None, so that k = 0 is kept
EffectiveKNoneOnly(k) == IF ~k.given THEN 0 ELSE k.value

\* "k = k or Config.TOP_K_RESULTS": None and 0 both become the configured top-k
EffectiveK(k) == IF ~k.given \/ k.value = 0 THEN TOP_K_RESULTS ELSE k.value

\* the answers the external index may give to a k-nearest query over n entries:
\* min(k, n) distinct entries in an order of its own choosing
Rankings(n, k) ==
    {r \in [1..Min(k, n) -> 1..n] : \A i, j \in 1..Min(k, n) : i # j => r[i] # r[j]}

Ranked(vs, r) == [i \in 1..Len(r) |-> vs.entries[r[i]]]

NoSearch == [op |-> "none", k |-> NoK, index_called |-> FALSE, k_used |-> 0,
             status |-> "", error |-> "", results |-> <<>>]

\* the body shared by similarity_search and similarity_search_with_score
\* (the scored variant pairs each result with the index's own score, which is
\* not modelled); index_ok says whether the external index answers
SearchBody(name, k, index_ok) ==
    IF ~vector_store.init
    THEN search' = [op |-> name, k |-> k, index_called |-> FALSE, k_used |-> 0,
                    status |-> "raised",
                    error |-> "ValueError: No vector store available for search",
                    results |-> <<>>]
    ELSE IF ~index_ok
    THEN search' = [op |-> name, k |-> k, index_called |-> TRUE,
                    k_used |-> EffectiveK(k),
                    status |-> "raised", error |-> "IndexError", results |-> <<>>]
    ELSE \E r \in Rankings(Len(vector_store.entries), EffectiveK(k)) :
         search' = [op |-> name, k |-> k, index_called |-> TRUE,
                    k_used |-> EffectiveK(k),
                    status |-> "returned", error |-> "",
                    results |-> Ranked(vector_store, r)]

\* VectorStoreManager.similarity_search(query, k) and
\* VectorStoreManager.similarity_search_with_score(query, k)
SimilaritySearch ==
    /\ search.op = "none" /\ qa.op = "none"
    /\ \E name \in {"similarity_search", "similarity_search_with_score"},
          k \in KArgs, index_ok \in BOOLEAN :
         SearchBody(name, k, index_ok)
    /\ UNCHANGED <<qa, response, chat_history, session, vector_store_ready>>
    /\ UNCHANGED chunkVars
    /\ UNCHANGED storeVars

\* ------------------------------------------------------------------------
\* QASystem.ask_question
\* ------------------------------------------------------------------------
\* Strings built by QASystem are sequences of tokens (literal pieces and the
\* values interpolated between them); the empty string is the empty sequence.
Questions == {<<"q1">>, <<"q2">>}
Languages == {"chinese", "english"}

\* the text of a stored chunk of n characters
Content(n) == [i \in 1..n |-> IF i % 3 = 1 THEN "a" ELSE IF i % 3 = 2 THEN "b" ELSE "c"]

\* the lengths of the chunks the retriever hands back
PageLengths == {1, SOURCE_PREVIEW, SOURCE_PREVIEW + 1, SOURCE_PREVIEW + MaxExtra}

\* where the try block of ask_question may raise: nowhere, while the chain is
\* built, in the retriever, while the prompt is assembled, in the completion
\* call, while a source is formatted
FailPoints == {"none", "chain_setup", "retrieval", "prompt", "completion", "format"}

Ellipsis == <<".", ".", ".">>

\* a preview that cuts the text to the preview length and adds nothing
PreviewCutOnly(pc) ==
    IF Len(pc) > SOURCE_PREVIEW THEN SubSeq(pc, 1, SOURCE_PREVIEW) ELSE pc

\* doc.page_content[:200] + "..." if len(doc.page_content) > 200
\*                                else doc.page_content
Preview(pc) ==
    IF Len(pc) > SOURCE_PREVIEW THEN SubSeq(pc, 1, SOURCE_PREVIEW) \o Ellipsis ELSE pc

\* the "for doc in result['source_documents']" loop: the list built so far and
\* whether formatting source number bad raised (bad = 0: none does)
RECURSIVE BuildSources(_, _, _, _)
BuildSources(docs, bad, i, acc) ==
    IF i > Len(docs) THEN [ok |-> TRUE, sources |-> acc]
    ELSE IF i = bad THEN [ok |-> FALSE, sources |-> acc]
    ELSE BuildSources(docs, bad, i + 1,
                      Append(acc, [content |-> Preview(Content(docs[i].len)),
                                   metadata |-> docs[i].id]))

\* the user-facing apology, for the f-string of line 88
ApologyPrefix == "apology: error while processing your question: "

NoStoreError == "No vector store available. Please add documents first."

\* an error response that keeps the sources collected before the failure
ErrorResponseKeepingSources(question, err, partial) ==
    [keys |-> {"answer", "source_documents", "question", "error"},
     answer |-> <<ApologyPrefix, err>>,
     source_documents |-> partial,
     question |-> question,
     error |-> err]

\* the dict of the except branch; partial is the source list built so far
ErrorResponse(question, err, partial) ==
    [keys |-> {"answer", "source_documents", "question", "error"},
     answer |-> <<ApologyPrefix, err>>,
     source_documents |-> <<>>,
     question |-> question,
     error |-> err]

\* the dict of the try branch
SuccessResponse(question, answer, sources) ==
    [keys |-> {"answer", "source_documents", "question"},
     answer |-> answer,
     source_documents |-> sources,
     question |-> question,
     error |-> ""]

\* the completion capability's answer
CompletionAnswer == <<"ans">>

\* the prompt handed to the completion capability
Prompt(language, docs, question) ==
    [template |-> IF language = "chinese" THEN "prompt_template"
                                          ELSE "english_prompt_template",
     context |-> [i \in 1..Len(docs) |-> docs[i].id],
     question |-> question]

NoPrompt == [template |-> "", context |-> <<>>, question |-> <<>>]

\* a set-up that builds the chain whether or not there is a store
SetupFailsUnguarded(fail) ==
    IF fail = "chain_setup" THEN "ChainSetupError" ELSE ""

\* QASystem.setup_qa_chain: the error it raises, "" when it returns a chain
SetupFails(fail) ==
    IF ~vector_store.init THEN NoStoreError
    ELSE IF fail = "chain_setup" THEN "ChainSetupError"
    ELSE ""

\* QASystem.ask_question(question, language): what it did and what it returned
\*   fail       where the try block raises
\*   retrieved  the documents the retriever hands back (identity and length)
\*   bad        the source whose formatting raises when fail = "format"
Ask(question, language, fail, retrieved, bad) ==
    LET built == BuildSources(retrieved, IF fail = "format" THEN bad ELSE 0, 1, <<>>)
    IN IF SetupFails(fail) # ""
       THEN [retrieval_invoked |-> FALSE, completion_invoked |-> FALSE,
             prompt |-> NoPrompt,
             response |-> ErrorResponse(question, SetupFails(fail), <<>>)]
       ELSE IF fail = "retrieval"
       THEN [retrieval_invoked |-> TRUE, completion_invoked |-> FALSE,
             prompt |-> NoPrompt,
             response |-> ErrorResponse(question, "RetrievalError", <<>>)]
       ELSE IF fail = "prompt"
       THEN [retrieval_invoked |-> TRUE, completion_invoked |-> FALSE,
             prompt |-> NoPrompt,
             response |-> ErrorResponse(question, "PromptError", <<>>)]
       ELSE IF fail = "completion"
       THEN [retrieval_invoked |-> TRUE, completion_invoked |-> TRUE,
             prompt |-> Prompt(language, retrieved, question),
             response |-> ErrorResponse(question, "CompletionError", <<>>)]
       ELSE IF ~built.ok
       THEN [retrieval_invoked |-> TRUE, completion_invoked |-> TRUE,
             prompt |-> Prompt(language, retrieved, question),
             response |-> ErrorResponse(question, "FormatError", built.sources)]
       ELSE [retrieval_invoked |-> TRUE, completion_invoked |-> TRUE,
             prompt |-> Prompt(language, retrieved, question),
             response |-> SuccessResponse(question, CompletionAnswer, built.sources)]

\* the documents the chain's retriever may hand back: the index's answer to a
\* query with the configured top-k (get_retriever), each with its length
Retrievals ==
    UNION {{[i \in 1..Len(r) |-> [id |-> vector_store.entries[r[i]], len |-> lens[i]]]
              : lens \in [1..Len(r) -> PageLengths]}
           : r \in Rankings(Len(vector_store.entries), TOP_K_RESULTS)}

\* the chat_history argument: None or a list of turns
NoHistory == [given |-> FALSE, turns |-> <<>>]

NoQa == [op |-> "none", question |-> <<>>, language |-> "", history |-> NoHistory,
         history_after |-> NoHistory, enhanced |-> <<>>, fail |-> "", retrieved |-> <<>>,
         bad |-> 0, retrieval_invoked |-> FALSE, completion_invoked |-> FALSE,
         prompt |-> NoPrompt]

NoResponse == [keys |-> {}, answer |-> <<>>, source_documents |-> <<>>,
               question |-> <<>>, error |-> ""]

\* the state after a QASystem call: name is the entry point, question and
\* history its arguments, enhanced the question ask_question received
Answered(name, question, language, history, enhanced, fail, retrieved, bad) ==
    LET a == Ask(enhanced, language, fail, retrieved, bad)
    IN /\ qa' = [op |-> name, question |-> question, language |-> language,
                 history |-> history, history_after |-> history,
                 enhanced |-> enhanced, fail |-> fail,
                 retrieved |-> retrieved, bad |-> bad,
                 retrieval_invoked |-> a.retrieval_invoked,
                 completion_invoked |-> a.completion_invoked,
                 prompt |-> a.prompt]
       /\ response' = a.response

\* the inputs a call consumes: the retriever's documents only when the
\* retriever is reached, a failing source only when sources are formatted
AskInputs ==
    {[fail |-> f, retrieved |-> <<>>, bad |-> 0] :
        f \in {g \in FailPoints : g \in {"none", "chain_setup", "retrieval"}}}
    \cup {[fail |-> f, retrieved |-> d, bad |-> 0] :
            f \in {"none", "prompt", "completion"}, d \in Retrievals}
    \cup UNION {{[fail |-> "format", retrieved |-> d, bad |-> b] : b \in 1..Len(d)}
                : d \in Retrievals}

\* the inputs that fit the store: without a store, or when the try block raises
\* before the retriever answers, no documents are read
FitsStore(in) ==
    IF ~vector_store.init THEN in.retrieved = <<>> /\ in.fail = "none"
    ELSE IF in.fail \in {"chain_setup", "retrieval"} THEN in.retrieved = <<>>
    ELSE in.retrieved # <<>>

\* QASystem.ask_question(question, language)
AskQuestion ==
    /\ search.op = "none" /\ qa.op = "none"
    /\ \E question \in Questions, language \in Languages, in \in AskInputs :
         /\ FitsStore(in)
         /\ Answered("ask_question", question, language, NoHistory, question,
                     in.fail, in.retrieved, in.bad)
    /\ UNCHANGED <<search, chat_history, session, vector_store_ready>>
    /\ UNCHANGED chunkVars
    /\ UNCHANGED storeVars

\* ------------------------------------------------------------------------
\* QASystem.chat_with_history
\* ------------------------------------------------------------------------
\* a chat turn is a dict; keys holds the fields it has
Turn(keys, question, answer) == [keys |-> keys, question |-> question, answer |-> answer]

\* the turns of the histories handed in: two full turns that differ, one dict
\* with neither field
HistoryTurns ==
    {Turn({"question", "answer"}, <<"hq1">>, <<"ha1">>),
     Turn({"question", "answer"}, <<"hq2">>, <<"ha2">>),
     Turn({}, <<>>, <<>>)}

HistoryArgs ==
    {NoHistory} \cup
    {[given |-> TRUE, turns |-> h] : h \in UNION {[1..n -> HistoryTurns] : n \in 0..MaxHistory}}

\* chat.get(key, '')
Get(turn, key) == IF key \in turn.keys THEN turn[key] ELSE <<>>

\* f"Q: {chat.get('question', '')}\nA: {chat.get('answer', '')}\n\n"
FoldTurn(turn) ==
    <<"Q: ">> \o Get(turn, "question") \o <<"\nA: ">> \o Get(turn, "answer") \o <<"\n\n">>

\* a window that takes the oldest turns
LastTurnsOldest(turns) == SubSeq(turns, 1, Min(HISTORY_WINDOW, Len(turns)))

\* chat_history[-3:]
LastTurns(turns) ==
    SubSeq(turns, Len(turns) - Min(HISTORY_WINDOW, Len(turns)) + 1, Len(turns))

\* the loop that builds history_context
RECURSIVE HistoryContext(_)
HistoryContext(turns) ==
    IF turns = <<>> THEN <<>>
    ELSE FoldTurn(Head(turns)) \o HistoryContext(Tail(turns))

\* the two literals of the f-string of line 115 (Chinese in the source)
HistoryHeader == "history header:\n"
CurrentQuestion == "\ncurrent question: "

\* enhanced_question
Enhanced(question, turns) ==
    LET history_context == HistoryContext(LastTurns(turns))
    IN IF history_context # <<>>
       THEN <<HistoryHeader>> \o history_context \o <<CurrentQuestion>> \o question
       ELSE question

\* QASystem.chat_with_history(question, chat_history, language)
ChatWithHistory ==
    /\ search.op = "none" /\ qa.op = "none"
    /\ \E question \in Questions, language \in Languages,
          history \in HistoryArgs, in \in AskInputs :
         /\ FitsStore(in)
         /\ Answered("chat_with_history", question, language, history,
                     Enhanced(question, history.turns),
                     in.fail, in.retrieved, in.bad)
    /\ UNCHANGED <<search, chat_history, session, vector_store_ready>>
    /\ UNCHANGED chunkVars
    /\ UNCHANGED storeVars

\* ------------------------------------------------------------------------
\* CLIDemo and ChatWithDocsApp: the question loop and the chat history
\* ------------------------------------------------------------------------
\* the outcomes of the questions of a session: an answer or a failed
\* completion, over chunks shorter than the preview
SessionInputs ==
    {in \in AskInputs :
        /\ in.fail \in {"none", "completion"}
        /\ \A i \in 1..Len(in.retrieved) : in.retrieved[i].len < SOURCE_PREVIEW}

\* a handler that asks with the history and then stores the turn
\*   keys      the fields of the stored turn
\*   language  the language handed to chat_with_history
SessionQuestion(keys, language) ==
    /\ Len(chat_history) < MaxHistory
    /\ \E question \in Questions, in \in SessionInputs :
         /\ FitsStore(in)
         /\ Answered("chat_with_history", question, language,
                     [given |-> TRUE, turns |-> chat_history],
                     Enhanced(question, chat_history),
                     in.fail, in.retrieved, in.bad)
         /\ chat_history' = Append(chat_history, Turn(keys, question, response'.answer))
    /\ UNCHANGED search
    /\ UNCHANGED chunkVars
    /\ UNCHANGED storeVars

\* CLIDemo.start_qa: one question of the loop (the loop is entered only with
\* a store); chat_with_history is called with the default language
CliQuestion ==
    /\ session = "cli"
    /\ vector_store.init
    /\ SessionQuestion({"question", "answer"}, "chinese")
    /\ UNCHANGED <<session, vector_store_ready>>

\* CLIDemo.start_qa: the 'clear' command
CliClearHistory ==
    /\ session = "cli"
    /\ vector_store.init
    /\ chat_history' = <<>>
    /\ UNCHANGED <<search, qa, response, session, vector_store_ready>>
    /\ UNCHANGED chunkVars
    /\ UNCHANGED storeVars

\* the try block of CLIDemo.clear_database (confirmed) and of
\* ChatWithDocsApp.clear_vector_store: delete_vector_store, then the history
\* is reset; when rmtree raises the handler reports the error and the history
\* stays
ClearBody ==
    /\ IF disk.exists
       THEN \E rm_ok \in BOOLEAN :
            IF rm_ok
            THEN /\ disk' = Rmtree(disk)
                 /\ vector_store' = None
                 /\ Record(Op("delete_vector_store", <<>>, "None", FALSE, "deleted"))
                 /\ chat_history' = <<>>
            ELSE /\ disk' \in {disk, BrokenDir}
                 /\ Record(Op("delete_vector_store", <<>>, "OSError", FALSE, ""))
                 /\ UNCHANGED <<vector_store, chat_history>>
       ELSE /\ vector_store' = None
            /\ Record(Op("delete_vector_store", <<>>, "None", FALSE, ""))
            /\ chat_history' = <<>>
            /\ UNCHANGED disk
    /\ UNCHANGED saved
    /\ UNCHANGED <<search, qa, response>>
    /\ UNCHANGED chunkVars

\* CLIDemo.clear_database: menu choice 5, confirmed
ClearDatabase ==
    /\ session = "cli"
    /\ ClearBody
    /\ UNCHANGED <<session, vector_store_ready>>

\* ------------------------------------------------------------------------
\* CLIDemo: start-up and the ingestion handlers
\* ------------------------------------------------------------------------
\* what the processor hands the handler: an exception, or a list of documents
\* (process_file returns an empty list for a file without text, process_url
\* raises instead)
Processed(status, docs) == [status |-> status, docs |-> docs]
FileResults == {Processed("raised", <<>>)} \cup {Processed("ok", d) : d \in Batches}
UrlResults == {Processed("raised", <<>>)} \cup {Processed("ok", d) : d \in Batches \ {<<>>}}

\* add_documents(documents) on the store vs: the store afterwards and how the
\* call ended
AddResult(vs, docs, embed_ok) ==
    IF docs = <<>> THEN [store |-> vs, ret |-> "None", embedded |-> FALSE]
    ELSE IF ~embed_ok THEN [store |-> vs, ret |-> "EmbeddingError", embedded |-> TRUE]
    ELSE [store |-> IF ~vs.init THEN FromDocuments(docs) ELSE AddToIndex(vs, docs),
          ret |-> "None", embedded |-> TRUE]

\* bookkeeping of a handler that made two manager operations, o1 then o2
Record2(o1, o2) ==
    /\ last' = o2
    /\ prev' = [op |-> o1.op, ret |-> o1.ret]
    /\ prev2_saved' = (last.op = "save_vector_store" /\ last.ret = "None")
    /\ fs_failed' = (fs_failed \/ o1.ret = "OSError" \/ o2.ret = "OSError")

\* the save_vector_store() of a handler, made on the store vs
SaveOp(vs, ret, log) ==
    [op |-> "save_vector_store", docs |-> <<>>, ret |-> ret, embedded |-> FALSE,
     log |-> log, pre_store |-> vs, pre_disk |-> disk]

\* a handler that adds the documents and never saves
IngestWithoutSave(processed) ==
    IF processed.status = "raised"
    THEN UNCHANGED storeVars
    ELSE \E embed_ok \in BOOLEAN :
         LET a == AddResult(vector_store, processed.docs, embed_ok)
         IN /\ Len(vector_store.entries) + Len(processed.docs) <= MaxStore
            /\ vector_store' = a.store
            /\ Record(Op("add_documents", processed.docs, a.ret, a.embedded, ""))
            /\ UNCHANGED <<disk, saved>>

\* the try block of add_documents / add_url once the processor has answered:
\* add_documents(documents), then save_vector_store(); the first exception
\* ends the block and is reported
Ingest(processed) ==
    IF processed.status = "raised"
    THEN UNCHANGED storeVars
    ELSE \E embed_ok \in BOOLEAN, fs_ok \in BOOLEAN :
         LET a == AddResult(vector_store, processed.docs, embed_ok)
             add == Op("add_documents", processed.docs, a.ret, a.embedded, "")
         IN /\ Len(vector_store.entries) + Len(processed.docs) <= MaxStore
            /\ vector_store' = a.store
            /\ IF a.ret # "None"
               THEN /\ Record(add)
                    /\ UNCHANGED <<disk, saved>>
               ELSE IF ~a.store.init
               THEN /\ Record2(add, SaveOp(a.store, "ValueError: No vector store to save", ""))
                    /\ UNCHANGED <<disk, saved>>
               ELSE IF fs_ok
               THEN /\ disk' = SaveLocal(disk, a.store)
                    /\ saved' = a.store.entries
                    /\ Record2(add, SaveOp(a.store, "None", "saved"))
               ELSE /\ disk' \in {disk, BrokenDir}
                    /\ Record2(add, SaveOp(a.store, "OSError", ""))
                    /\ UNCHANGED saved

\* CLIDemo.run up to the menu: load_vector_store() on the new manager
CliStart ==
    /\ session = "cli_start"
    /\ session' = "cli"
    /\ IF disk.exists
       THEN IF disk.valid
            THEN /\ vector_store' = LoadLocal(disk)
                 /\ Record(Op("load_vector_store", <<>>, "True", FALSE, "loaded"))
            ELSE /\ Record(Op("load_vector_store", <<>>, "False", FALSE,
                              "Error loading vector store"))
                 /\ UNCHANGED vector_store
       ELSE /\ Record(Op("load_vector_store", <<>>, "False", FALSE, ""))
            /\ UNCHANGED vector_store
    /\ UNCHANGED <<disk, saved>>
    /\ UNCHANGED <<search, qa, response, chat_history, vector_store_ready>>
    /\ UNCHANGED chunkVars

\* CLIDemo.add_documents: menu choice 1, for a path that exists
CliAddDocuments ==
    /\ session = "cli"
    /\ \E processed \in FileResults : Ingest(processed)
    /\ UNCHANGED qaVars
    /\ UNCHANGED chunkVars

\* CLIDemo.add_url: menu choice 2, for a URL that is not empty
CliAddUrl ==
    /\ session = "cli"
    /\ \E processed \in UrlResults : Ingest(processed)
    /\ UNCHANGED qaVars
    /\ UNCHANGED chunkVars

\* ------------------------------------------------------------------------
\* ChatWithDocsApp: every interaction reruns the script, which builds a new
\* ChatWithDocsApp (and with it a new VectorStoreManager) and calls run();
\* the chat history and the ready flag live in st.session_state
\* ------------------------------------------------------------------------
\* main() up to the widgets: ChatWithDocsApp.__init__ (a new manager without
\* a store, a new QASystem that has answered nothing), then the
\* load_vector_store() of run(), which sets the ready flag when it succeeds
WebRerun ==
    /\ session = "web"
    /\ session' = "web_run"
    /\ LET loadable == disk.exists /\ disk.valid
           init == [op |-> "__init__", docs |-> <<>>, ret |-> "None",
                    embedded |-> FALSE, log |-> "",
                    pre_store |-> None, pre_disk |-> disk]
           load == [op |-> "load_vector_store", docs |-> <<>>,
                    ret |-> IF loadable THEN "True" ELSE "False",
                    embedded |-> FALSE,
                    log |-> IF loadable THEN "loaded"
                            ELSE IF disk.exists THEN "Error loading vector store"
                            ELSE "",
                    pre_store |-> None, pre_disk |-> disk]
       IN /\ vector_store' = IF loadable THEN LoadLocal(disk) ELSE None
          /\ Record2(init, load)
          /\ vector_store_ready' = (vector_store_ready \/ loadable)
    /\ search' = NoSearch
    /\ qa' = NoQa
    /\ response' = NoResponse
    /\ UNCHANGED <<disk, saved, chat_history>>
    /\ UNCHANGED chunkVars

\* the question form, submitted with a question while the ready flag is set:
\* ChatWithDocsApp.handle_question
WebQuestion ==
    /\ session = "web_run"
    /\ session' = "web"
    /\ vector_store_ready
    /\ \E language \in Languages :
         SessionQuestion({"question", "answer", "source_documents"}, language)
    /\ UNCHANGED vector_store_ready

\* the try block of process_documents once every uploaded file is processed:
\* nothing is added or saved when no document was extracted; the ready flag
\* is set after a completed save
WebIngest(processed) ==
    IF processed.status = "raised" \/ processed.docs = <<>>
    THEN /\ UNCHANGED storeVars
         /\ UNCHANGED vector_store_ready
    ELSE \E embed_ok \in BOOLEAN, fs_ok \in BOOLEAN :
         LET a == AddResult(vector_store, processed.docs, embed_ok)
             add == Op("add_documents", processed.docs, a.ret, a.embedded, "")
         IN /\ Len(vector_store.entries) + Len(processed.docs) <= MaxStore
            /\ vector_store' = a.store
            /\ IF a.ret # "None"
               THEN /\ Record(add)
                    /\ UNCHANGED <<disk, saved, vector_store_ready>>
               ELSE IF fs_ok
               THEN /\ disk' = SaveLocal(disk, a.store)
                    /\ saved' = a.store.entries
                    /\ Record2(add, SaveOp(a.store, "None", "saved"))
                    /\ vector_store_ready' = TRUE
               ELSE /\ disk' \in {disk, BrokenDir}
                    /\ Record2(add, SaveOp(a.store, "OSError", ""))
                    /\ UNCHANGED <<saved, vector_store_ready>>

\* the process button, pressed with uploaded files:
\* ChatWithDocsApp.process_documents
WebProcessDocuments ==
    /\ session = "web_run"
    /\ session' = "web"
    /\ \E processed \in FileResults : WebIngest(processed)
    /\ UNCHANGED <<search, qa, response, chat_history>>
    /\ UNCHANGED chunkVars

\* the clear button: ChatWithDocsApp.clear_vector_store; the ready flag is
\* reset when delete_vector_store returns
WebClearDatabase ==
    /\ session = "web_run"
    /\ session' = "web"
    /\ ClearBody
    /\ vector_store_ready' = (vector_store_ready /\ last'.ret = "OSError")

\* a rerun that reaches no handler: no button pressed, or the form submitted
\* without a question or before the ready flag is set
WebNoHandler ==
    /\ session = "web_run"
    /\ session' = "web"
    /\ UNCHANGED <<search, qa, response, chat_history, vector_store_ready>>
    /\ UNCHANGED chunkVars
    /\ UNCHANGED storeVars

\* ------------------------------------------------------------------------
\* Specifications
\* ------------------------------------------------------------------------
\* no search and no question yet; the session's history starts empty
\* (CLIDemo.__init__: self.chat_history = [])
InitQa ==
    /\ search = NoSearch
    /\ qa = NoQa
    /\ response = NoResponse
    /\ chat_history = <<>>

Init ==
    /\ InitProcessor /\ InitManager /\ InitQa
    /\ session = "none"
    /\ vector_store_ready = FALSE

\* the ingestion calls, one call per behaviour, over every configuration
NextChunk == ProcessFile \/ ProcessUrl
SpecChunk == Init /\ [][NextChunk]_vars

\* the ceilings under which web pages are fetched: the one of the source,
\* and ceilings scaled to the lengths of the pages drawn, so that the cut at
\* the ceiling falls inside a text
TextLimits == (1..MaxLen) \cup {TEXT_LIMIT}

\* process_url alone, one call per behaviour, over every ceiling
InitUrl ==
    /\ chunk_size = MaxChunkSize
    /\ chunk_overlap = 0
    /\ text_limit \in TextLimits
    /\ call = NoCall
    /\ text = <<>>
    /\ tried = <<>>
    /\ chunks = <<>>
    /\ documents = <<>>
    /\ result = Ok
    /\ InitManager
    /\ InitQa
    /\ session = "none"
    /\ vector_store_ready = FALSE
NextUrl == ProcessUrl
SpecUrl == InitUrl /\ [][NextUrl]_vars

\* the vector-store lifecycle, any sequence of manager operations
InitStore == Init /\ chunk_size = MaxChunkSize /\ chunk_overlap = 0
NextStore ==
    \/ NewManager
    \/ CreateVectorStore
    \/ AddDocuments
    \/ SaveVectorStore
    \/ LoadVectorStore
    \/ DeleteVectorStore
SpecStore == InitStore /\ [][NextStore]_vars

\* the stores create_vector_store and add_documents build
Stores ==
    {None} \cup {Faiss(es) : es \in UNION {[1..n -> Docs] : n \in 1..MaxStore}}

\* one search or question per behaviour, over every store
InitAsk ==
    /\ InitProcessor /\ chunk_size = MaxChunkSize /\ chunk_overlap = 0
    /\ vector_store \in Stores
    /\ disk = NoDir
    /\ last = [op |-> "none", docs |-> <<>>, ret |-> "", embedded |-> FALSE,
               log |-> "", pre_store |-> None, pre_disk |-> NoDir]
    /\ prev = NoOp
    /\ prev2_saved = FALSE
    /\ fs_failed = FALSE
    /\ saved = <<>>
    /\ InitQa
    /\ session = "none"
    /\ vector_store_ready = FALSE
NextAsk == SimilaritySearch \/ AskQuestion
SpecAsk == InitAsk /\ [][NextAsk]_vars

\* one question per behaviour, with or without a history, over no store and
\* the stores of one chunk
InitChat ==
    /\ InitAsk
    /\ Len(vector_store.entries) <= 1
NextChat == AskQuestion \/ ChatWithHistory
SpecChat == InitChat /\ [][NextChat]_vars

\* a CLI or web session that has ingested one chunk and saved the store
InitSession ==
    /\ InitProcessor /\ chunk_size = MaxChunkSize /\ chunk_overlap = 0
    /\ \E d \in Docs :
         /\ vector_store = Faiss(<<d>>)
         /\ disk = Snapshot(<<d>>)
         /\ last = [op |-> "save_vector_store", docs |-> <<>>, ret |-> "None",
                    embedded |-> FALSE, log |-> "saved",
                    pre_store |-> Faiss(<<d>>), pre_disk |-> NoDir]
         /\ saved = <<d>>
    /\ prev = [op |-> "add_documents", ret |-> "None"]
    /\ prev2_saved = FALSE
    /\ fs_failed = FALSE
    /\ InitQa
    /\ session \in {"cli", "web"}
    /\ vector_store_ready = (session = "web")
NextSession ==
    \/ CliQuestion
    \/ CliClearHistory
    \/ ClearDatabase
    \/ WebRerun
    \/ WebQuestion
    \/ WebProcessDocuments
    \/ WebClearDatabase
    \/ WebNoHandler
SpecSession == InitSession /\ [][NextSession]_vars

\* a CLI run from its start: the directory is absent or holds the snapshot of
\* an earlier run; the menu choices that touch the store or the directory
InitCli ==
    /\ InitProcessor /\ chunk_size = MaxChunkSize /\ chunk_overlap = 0
    /\ vector_store = None
    /\ disk \in {NoDir} \cup {Snapshot(s.entries) : s \in Stores \ {None}}
    /\ last = [op |-> "none", docs |-> <<>>, ret |-> "", embedded |-> FALSE,
               log |-> "", pre_store |-> None, pre_disk |-> NoDir]
    /\ prev = NoOp
    /\ prev2_saved = FALSE
    /\ fs_failed = FALSE
    /\ saved = <<>>
    /\ InitQa
    /\ session = "cli_start"
    /\ vector_store_ready = FALSE
NextCli == CliStart \/ CliAddDocuments \/ CliAddUrl \/ ClearDatabase
SpecCli == InitCli /\ [][NextCli]_vars

\* ------------------------------------------------------------------------
\* Properties of the ingestion calls (checked under SpecChunk)
\* ------------------------------------------------------------------------
Returned == call.op # "none" /\ result.status = "ok"
ByManualTier == Returned /\ tried = <<"primary", "secondary", "manual">>

\* the raw chunks that are empty after trimming
Blank(c) == \A k \in 1..Len(c) : IsSpace(c[k])
DroppedChunks == {k \in 1..Len(chunks) : Blank(chunks[k])}

\* C1: the j-th document a call returns (j = 0, 1, ...) carries chunk_id = j,
\* whichever tier produced the chunks, also when raw chunks were dropped for
\* being empty after trimming.
C1_ChunkIdsContiguous ==
    Returned => \A j \in 1..Len(documents) : documents[j].chunk_id = j - 1

\* C2: every returned document has a page_content that is non-empty and has
\* no leading or trailing whitespace, and a raw chunk that is empty after
\* trimming is never emitted: the documents are exactly the non-blank raw
\* chunks, in order.
C2_DocumentsTrimmedNonEmpty ==
    Returned =>
        /\ \A j \in 1..Len(documents) :
             LET pc == documents[j].page_content
             IN /\ Len(pc) > 0
                /\ ~IsSpace(pc[1])
                /\ ~IsSpace(pc[Len(pc)])
        /\ Len(documents) = Len(chunks) - Cardinality(DroppedChunks)
        /\ \A j \in 1..Len(documents) :
             documents[j].chunk_id + 1 \notin DroppedChunks

\* a call where the manual tier produced a blank chunk, which was dropped, and
\* a chunk with whitespace at an end, which was emitted trimmed
C2_Witness ==
    /\ ByManualTier
    /\ DroppedChunks # {}
    /\ \E j \in 1..Len(documents) :
         Len(documents[j].page_content) < Len(chunks[documents[j].chunk_id + 1])

\* C3: for a text of length L and chunk size S, the manual (fixed-width) tier
\* yields ceil(L / S) chunks that are consecutive non-overlapping windows of
\* the text: each has exactly S characters except possibly the last, their
\* lengths add up to L and their concatenation in order is the text.
C3_ManualTierWindows ==
    ByManualTier =>
        LET L == Len(text)
            S == chunk_size
            n == Len(chunks)
        IN /\ n * S >= L
           /\ (n - 1) * S < L \/ n = 0
           /\ \A k \in 1..n : k < n => Len(chunks[k]) = S
           /\ n > 0 => Len(chunks[n]) \in 1..S
           /\ Len(Concat(chunks)) = L
           /\ Concat(chunks) = text

\* a manual-tier call on a text that is not a whole number of windows
C3_Witness ==
    /\ ByManualTier
    /\ Len(chunks) >= 2
    /\ Len(chunks[Len(chunks)]) < chunk_size

\* C4: the tiers run strictly in order and a chunking error never reaches the
\* caller: the simple splitter runs only if the primary one raised, manual
\* chunking runs only if both raised, and whatever the splitters do, a
\* process_file call whose extractor returned a text reaches the chunker and
\* returns a document list; no call raises once the chunker was reached.
C4_TiersInOrderNeverRaise ==
    /\ tried # <<>> =>
          /\ tried[1] = "primary"
          /\ Len(tried) >= 2 => tried[2] = "secondary"
          /\ Len(tried) >= 3 => tried[3] = "manual"
          /\ Len(tried) <= 3
          /\ (Len(tried) >= 2) <=> call.pfail
          /\ (Len(tried) >= 3) <=> (call.pfail /\ call.sfail)
          /\ result = Ok
    /\ (call.op = "process_file" /\ call.readable
          /\ call.parse \notin {"recursion_error", "parser_error"})
          => tried # <<>>

\* a process_file call in which both splitters raised and documents came back
C4_Witness ==
    /\ call.op = "process_file"
    /\ call.pfail /\ call.sfail
    /\ result = Ok
    /\ Len(documents) >= 2

\* ------------------------------------------------------------------------
\* Properties of the vector-store lifecycle (checked under SpecStore)
\* ------------------------------------------------------------------------
Count == GetDocumentCount(vector_store)
CountBefore == GetDocumentCount(last.pre_store)
Completed(name) == last.op = name /\ last.ret = BuildReturns(name)
IsPrefixOf(a, b) == Len(a) <= Len(b) /\ SubSeq(b, 1, Len(a)) = a

\* C5: an add_documents call with a non-empty list of n chunks that returns
\* creates the store when it was uninitialized (count becomes n) and otherwise
\* appends: count after = count before + n and every entry present before is
\* still present, in place.
C5_AddCreatesOrAppends ==
    (Completed("add_documents") /\ last.docs # <<>>) =>
        /\ vector_store.init
        /\ Count = CountBefore + Len(last.docs)
        /\ IsPrefixOf(last.pre_store.entries, vector_store.entries)
        /\ ~last.pre_store.init => Count = Len(last.docs)

\* an add that appended to an initialized store
C5_Witness ==
    /\ Completed("add_documents")
    /\ last.docs # <<>>
    /\ last.pre_store.init
    /\ Count = MaxStore

\* C6: add_documents([]) never changes get_document_count(), whatever the
\* store state: it returns leaving the in-memory store, including whether it
\* is initialized, and the persisted snapshot as they were.
C6_AddEmptyIsNoOp ==
    (last.op = "add_documents" /\ last.docs = <<>>) =>
        /\ last.ret = "None"
        /\ Count = CountBefore
        /\ vector_store = last.pre_store
        /\ disk = last.pre_disk

\* add_documents([]) on a store that was just loaded from a snapshot
C6_Witness ==
    /\ last.op = "add_documents"
    /\ last.docs = <<>>
    /\ prev = [op |-> "load_vector_store", ret |-> "True"]
    /\ Count > 0

\* C7: create_vector_store([]) fails with the "no documents" error and creates
\* no store: the in-memory store is as it was, so an uninitialized manager
\* stays uninitialized with count 0, and the embedding capability is not
\* invoked.
C7_CreateEmptyFails ==
    (last.op = "create_vector_store" /\ last.docs = <<>>) =>
        /\ last.ret = "ValueError: No documents provided to create vector store"
        /\ ~last.embedded
        /\ vector_store = last.pre_store
        /\ ~last.pre_store.init => (~vector_store.init /\ Count = 0)
        /\ disk = last.pre_disk

\* create_vector_store([]) on an uninitialized manager
C7_Witness ==
    /\ last.op = "create_vector_store"
    /\ last.docs = <<>>
    /\ ~last.pre_store.init

\* C8: a completed save_vector_store(), then a fresh manager over the same
\* store path, then load_vector_store(): load returns True and the fresh
\* manager holds the entries, and so the count, the store had when saved.
C8_SaveThenLoadRoundTrip ==
    (/\ last.op = "load_vector_store"
     /\ prev = [op |-> "__init__", ret |-> "None"]
     /\ prev2_saved) =>
        /\ last.ret = "True"
        /\ vector_store.init
        /\ Count = Len(saved)
        /\ vector_store.entries = saved

\* such a round trip of a store with MaxStore entries
C8_Witness ==
    /\ last.op = "load_vector_store"
    /\ prev = [op |-> "__init__", ret |-> "None"]
    /\ prev2_saved
    /\ ~last.pre_store.init
    /\ Len(saved) = MaxStore

\* C9: once delete_vector_store() completes, from any prior state,
\* get_document_count() is 0 and the persisted directory does not exist, and
\* a load_vector_store() that follows returns False and leaves the store
\* uninitialized.
C9_DeleteResets ==
    /\ Completed("delete_vector_store") =>
          /\ Count = 0
          /\ ~vector_store.init
          /\ ~disk.exists
    /\ (/\ last.op = "load_vector_store"
        /\ prev = [op |-> "delete_vector_store", ret |-> "None"]) =>
          /\ last.ret = "False"
          /\ ~vector_store.init
          /\ Count = 0

\* save, delete, load: the delete acted on an initialized, persisted store
C9_Witness ==
    /\ last.op = "load_vector_store"
    /\ prev = [op |-> "delete_vector_store", ret |-> "None"]
    /\ prev2_saved
    /\ last.ret = "False"

\* C10: save_vector_store() on an uninitialized store fails with an error and
\* has no effect: the directory (absent or holding a snapshot) and the
\* in-memory state are as they were; on an initialized store a completed save
\* that follows a completed save leaves the persisted state the first one
\* left.
C10_SaveFailsUninitializedAndIsIdempotent ==
    /\ (last.op = "save_vector_store" /\ ~last.pre_store.init) =>
          /\ last.ret = "ValueError: No vector store to save"
          /\ disk = last.pre_disk
          /\ vector_store = last.pre_store
    /\ (/\ Completed("save_vector_store")
        /\ prev = [op |-> "save_vector_store", ret |-> "None"]) =>
          /\ disk = last.pre_disk
          /\ vector_store = last.pre_store

\* a second completed save right after a completed save
C10_Witness ==
    /\ Completed("save_vector_store")
    /\ prev = [op |-> "save_vector_store", ret |-> "None"]
    /\ Count = MaxStore

\* C11: load_vector_store() never propagates an error: it returns True exactly
\* when the directory exists and deserializes, False (silently) when the
\* directory is absent, and False with the error reported when an existing
\* directory does not deserialize.
C11_LoadNeverRaises ==
    last.op = "load_vector_store" =>
        /\ last.ret \in {"True", "False"}
        /\ last.ret = "True" <=> (last.pre_disk.exists /\ last.pre_disk.valid)
        /\ ~last.pre_disk.exists => (last.ret = "False" /\ last.log = "")
        /\ (last.pre_disk.exists /\ ~last.pre_disk.valid) =>
              (last.ret = "False" /\ last.log = "Error loading vector store")
        /\ last.ret = "True" => last.log = "loaded"

\* a load of a directory that exists and does not deserialize
C11_Witness ==
    /\ last.op = "load_vector_store"
    /\ last.pre_disk.exists
    /\ ~last.pre_disk.valid
    /\ last.ret = "False"

\* C12: similarity_search and similarity_search_with_score on an
\* uninitialized store raise the store-uninitialized ValueError without
\* calling the index, an outcome that is never a returned list (not even an
\* empty one); on an initialized store with no k given they query the index
\* with k = TOP_K_RESULTS.
C12_SearchFailsUninitializedDefaultsK ==
    search.op # "none" =>
        /\ ~vector_store.init =>
             /\ search.status = "raised"
             /\ search.error = "ValueError: No vector store available for search"
             /\ ~search.index_called
        /\ search.status = "returned" => vector_store.init
        /\ search.status = "raised" => search.results = <<>>
        /\ (vector_store.init /\ ~search.k.given) =>
             /\ search.index_called
             /\ search.k_used = TOP_K_RESULTS

C12_Witness ==
    /\ search.op = "similarity_search_with_score"
    /\ vector_store.init
    /\ ~search.k.given
    /\ search.status = "returned"
    /\ search.k_used = TOP_K_RESULTS
    /\ Len(search.results) = Len(vector_store.entries)

\* C13: a question asked through ask_question or chat_with_history while the
\* store is uninitialized returns a response whose error field says that no
\* store is available and whose source list is empty; the retriever and the
\* completion are not invoked.
C13_AskWithoutStoreReturnsError ==
    (qa.op # "none" /\ ~vector_store.init) =>
        /\ response.error = NoStoreError
        /\ "error" \in response.keys
        /\ response.source_documents = <<>>
        /\ response.question = qa.enhanced
        /\ ~qa.retrieval_invoked
        /\ ~qa.completion_invoked

C13_Witness ==
    /\ qa.op = "chat_with_history"
    /\ ~vector_store.init
    /\ Len(qa.history.turns) > 0
    /\ response.error = NoStoreError

\* the prefix chat_with_history is expected to build from turns m..n
RECURSIVE C15_Folded(_, _, _)
C15_Folded(turns, m, n) ==
    IF m > n THEN <<>>
    ELSE <<"Q: ">> \o (IF "question" \in turns[m].keys THEN turns[m].question ELSE <<>>)
         \o <<"\nA: ">> \o (IF "answer" \in turns[m].keys THEN turns[m].answer ELSE <<>>)
         \o <<"\n\n">> \o C15_Folded(turns, m + 1, n)

\* C15: chat_with_history over a history of n turns hands ask_question the
\* question prefixed by the min(n, 3) most recent turns in their order; an
\* empty or None history leaves the question unchanged, a non-empty one
\* always prefixes it, and the history list is left as it was.
C15_FoldsLastThreeTurns ==
    qa.op = "chat_with_history" =>
        LET turns == qa.history.turns
            n == Len(turns)
            m == IF n < HISTORY_WINDOW THEN n ELSE HISTORY_WINDOW
        IN /\ n = 0 => qa.enhanced = qa.question
           /\ n > 0 =>
                /\ qa.enhanced = <<HistoryHeader>> \o C15_Folded(turns, n - m + 1, n)
                                   \o <<CurrentQuestion>> \o qa.question
                /\ qa.enhanced # qa.question
           /\ response.question = qa.enhanced
           /\ qa.history_after = qa.history

C15_Witness ==
    /\ qa.op = "chat_with_history"
    /\ Len(qa.history.turns) = HISTORY_WINDOW + 1
    /\ qa.history.turns[1] # qa.history.turns[HISTORY_WINDOW + 1]
    /\ qa.history.turns[2].keys = {}
    /\ qa.enhanced # qa.question

\* the try block of the last question raised
C14_Failed == ~vector_store.init \/ qa.fail # "none"

\* C14: ask_question always returns a result with the keys answer,
\* source_documents and question; when the chain set-up, the retrieval, the
\* prompt assembly, the completion or the formatting of a source fails, the
\* result carries the apology as answer, an empty source list and an error
\* field, and none of the sources collected before the failure.
C14_AskAlwaysReturnsWellFormed ==
    qa.op = "ask_question" =>
        /\ {"answer", "source_documents", "question"} \subseteq response.keys
        /\ response.question = qa.question
        /\ C14_Failed =>
             /\ "error" \in response.keys
             /\ response.error # ""
             /\ response.answer = <<ApologyPrefix, response.error>>
             /\ response.source_documents = <<>>
        /\ ~C14_Failed =>
             /\ "error" \notin response.keys
             /\ response.answer = CompletionAnswer
             /\ Len(response.source_documents) = Len(qa.retrieved)

C14_Witness ==
    /\ qa.op = "ask_question"
    /\ qa.fail = "format"
    /\ qa.bad = 2
    /\ response.source_documents = <<>>
    /\ response.error = "FormatError"

\* the last call returned a successful response
C16_Succeeded == qa.op # "none" /\ vector_store.init /\ qa.fail = "none"

\* C16 as stated: in a successful response no source's content is longer than
\* 200 characters, and it is the whole chunk text when that text has at most
\* 200 characters.
C16_ContentAtMost200 ==
    C16_Succeeded =>
        \A i \in 1..Len(response.source_documents) :
            /\ Len(response.source_documents[i].content) <= SOURCE_PREVIEW
            /\ qa.retrieved[i].len <= SOURCE_PREVIEW =>
                 response.source_documents[i].content = Content(qa.retrieved[i].len)

\* C16 amended: in a successful response a source's content is the whole
\* chunk text when that text has at most 200 characters, and otherwise its
\* first 200 characters followed by "...", 203 characters in all.
C16_ContentPreviewWithEllipsis ==
    C16_Succeeded =>
        /\ Len(response.source_documents) = Len(qa.retrieved)
        /\ \A i \in 1..Len(response.source_documents) :
             LET content == response.source_documents[i].content
                 whole == Content(qa.retrieved[i].len)
             IN /\ Len(whole) <= SOURCE_PREVIEW => content = whole
                /\ Len(whole) > SOURCE_PREVIEW =>
                     /\ Len(content) = SOURCE_PREVIEW + 3
                     /\ \A j \in 1..SOURCE_PREVIEW : content[j] = whole[j]
                     /\ \A j \in 1..3 : content[SOURCE_PREVIEW + j] = "."

C16_Witness ==
    /\ C16_Succeeded
    /\ qa.op = "ask_question"
    /\ Len(response.source_documents) = 2
    /\ qa.retrieved[1].len = SOURCE_PREVIEW
    /\ qa.retrieved[2].len = SOURCE_PREVIEW + 1
    /\ Len(response.source_documents[2].content) = SOURCE_PREVIEW + 3

\* every character outside the page's script and style elements is whitespace
C17_NoVisibleText ==
    \A i \in 1..Len(call.page.visible) : IsSpace(call.page.visible[i])

\* C17: process_url on a fetched page that has no text outside its script and
\* style elements other than whitespace raises the "No text content found in
\* the webpage" error, returns no documents and calls no chunker.
C17_EmptyPageFailsBeforeChunking ==
    (call.op = "process_url" /\ call.parse = "ok" /\ C17_NoVisibleText) =>
        /\ result.status = "raised"
        /\ result.error = "Exception"
        /\ result.detail = <<"Error processing URL", "No text content found in the webpage">>
        /\ documents = <<>>
        /\ tried = <<>>
        /\ chunks = <<>>

C17_Witness ==
    /\ call.op = "process_url"
    /\ call.parse = "ok"
    /\ call.page.script # <<>>
    /\ Len(call.page.visible) > 1
    /\ C17_NoVisibleText
    /\ result.status = "raised"

\* the four ingestion failure kinds and the error the processor raises for each
C18_Kinds == {"network_failure", "http_error_status", "unsupported_file_type", "empty_content"}

C18_ErrorOf(kind) ==
    IF kind \in {"network_failure", "http_error_status"} THEN NetworkError(kind)
    ELSE IF kind = "unsupported_file_type" THEN UnsupportedError(".csv")
    ELSE NoTextError

\* the form of an error: its exception type and the template of its message
C18_Form(r) == <<r.error, r.detail[1]>>

\* the failure kind of the call that was made
C18_Kind ==
    IF call.op = "process_url" /\ call.fetch # "ok" THEN call.fetch
    ELSE IF /\ call.op = "process_url" /\ call.parse = "ok"
            /\ result.status = "raised" /\ tried = <<>>
    THEN "empty_content"
    ELSE IF call.op = "process_file" /\ result.status = "raised" /\ ~call.read
    THEN "unsupported_file_type"
    ELSE "none"

\* C18: a call that fails with one of the four ingestion failure kinds raises
\* an error whose form (exception type and message template) no other of the
\* four kinds produces; a network failure and an HTTP error status differ.
C18_FailureKindsDistinct ==
    C18_Kind \in C18_Kinds =>
        /\ result.status = "raised"
        /\ C18_Form(result) = C18_Form(C18_ErrorOf(C18_Kind))
        /\ \A other \in C18_Kinds \ {C18_Kind} :
             C18_Form(result) # C18_Form(C18_ErrorOf(other))

\* the suffixes that match a configured extension when case is ignored
C19_Supported == {s \in Suffixes : s \in SUPPORTED_EXTENSIONS \/ s = ".TXT"}

\* the extension named e names the suffix s, in the case given or in lower case
C19_Names(e, s) == e = s \/ <<s, e>> \in {<<".TXT", ".txt">>, <<".CSV", ".csv">>}

\* C19: process_file hands a file to an extractor exactly when its suffix is
\* one of .pdf, .docx, .txt, .md, .html in any case; for every other suffix it
\* raises the "Unsupported file type" ValueError naming the extension, reads no
\* file and returns no documents.
C19_SupportedExtensionsOnly ==
    call.op = "process_file" =>
        /\ call.read <=> call.suffix \in C19_Supported
        /\ call.suffix \notin C19_Supported =>
             /\ result.status = "raised"
             /\ result.error = "ValueError"
             /\ result.detail[1] = "Unsupported file type"
             /\ C19_Names(result.detail[2], call.suffix)
             /\ text = <<>>
             /\ documents = <<>>
        /\ call.suffix \in C19_Supported =>
             ~(result.status = "raised" /\ result.detail[1] = "Unsupported file type")

C19_Witness ==
    /\ call.op = "process_file"
    /\ call.suffix = ".CSV"
    /\ result.status = "raised"
    /\ result.detail = <<"Unsupported file type", ".csv">>
    /\ ~call.read

\* C20: over the questions of a CLI or web session the stored chat history
\* never holds more turns than the window of turns folded into a prompt.
C20_HistoryBounded == Len(chat_history) <= HISTORY_WINDOW

\* every question a session answers makes the stored history one turn longer
C20_EveryQuestionGrowsHistory ==
    [][(qa' # qa /\ qa' # NoQa) => Len(chat_history') = Len(chat_history) + 1]_vars

\* C21: create_vector_store with a non-empty list of n chunks either builds a
\* fresh index, after which the store holds exactly the n new entries and
\* none of those it held before (count = n), or fails in the embedding
\* capability and leaves the store in memory as it was.
C21_CreateReplacesOrLeaves ==
    (last.op = "create_vector_store" /\ last.docs # <<>>) =>
        /\ last.ret \in {ReturnedStore, "EmbeddingError"}
        /\ last.ret = ReturnedStore =>
             /\ vector_store.init
             /\ Count = Len(last.docs)
             /\ vector_store.entries = last.docs
        /\ last.ret = "EmbeddingError" => vector_store = last.pre_store

\* a create over a store that held more entries, and different ones
C21_Witness ==
    /\ Completed("create_vector_store")
    /\ last.pre_store.init
    /\ CountBefore = MaxStore
    /\ Count < CountBefore
    /\ last.pre_store.entries[1] # last.docs[1]

\* C22: in every state reached from a new manager over an absent directory by
\* create, add, save, load and delete, get_document_count() is 0 exactly when
\* the store is uninitialized; an initialized store holds at least one entry.
C22_CountZeroIffUninitialized ==
    /\ Count = 0 <=> ~vector_store.init
    /\ vector_store.init => Len(vector_store.entries) >= 1

\* a store brought back by a load after a new manager was made
C22_Witness ==
    /\ last.op = "load_vector_store"
    /\ last.ret = "True"
    /\ ~last.pre_store.init
    /\ vector_store.init
    /\ Count >= 1

\* C23: a load_vector_store() that returns False leaves the store in memory as
\* it was: a manager initialized before the call is initialized after it, with
\* the same count.
C23_FailedLoadKeepsStore ==
    (last.op = "load_vector_store" /\ last.ret = "False") =>
        /\ vector_store = last.pre_store
        /\ last.pre_store.init => (vector_store.init /\ Count = CountBefore)

\* a failed deserialization under an initialized manager
C23_Witness ==
    /\ last.op = "load_vector_store"
    /\ last.ret = "False"
    /\ last.pre_disk.exists
    /\ last.pre_store.init
    /\ vector_store.init
    /\ Count = MaxStore

\* C26: when the removal of the directory raises during delete_vector_store()
\* the error propagates and the store in memory is as it was, initialized with
\* the same count; when the directory is absent delete returns and the store
\* is uninitialized.
C26_DeleteFailureKeepsStore ==
    last.op = "delete_vector_store" =>
        /\ last.ret \in {"None", "OSError"}
        /\ last.ret = "OSError" =>
             /\ last.pre_disk.exists
             /\ vector_store = last.pre_store
             /\ Count = CountBefore
        /\ ~last.pre_disk.exists =>
             /\ last.ret = "None"
             /\ ~vector_store.init
             /\ ~disk.exists

\* a removal that raised under an initialized manager
C26_Witness ==
    /\ last.op = "delete_vector_store"
    /\ last.ret = "OSError"
    /\ last.pre_store.init
    /\ vector_store.init
    /\ Count = CountBefore
    /\ Count >= 1

\* the last call was a process_url that handed a text to the chunker
C25_Chunked == call.op = "process_url" /\ tried # <<>>

\* no two consecutive line breaks, and nothing but text next to a line break
\* inside the text
C25_NoBlankLineInside ==
    \A i \in 1..Len(text) :
        text[i] = NL =>
            /\ i > 1
            /\ ~IsSpace(text[i - 1])
            /\ i < Len(text) => ~IsSpace(text[i + 1])

\* C25 as stated: the text process_url hands to the chunker has only
\* non-empty lines without leading or trailing whitespace, so no two
\* consecutive line breaks, and is no longer than the ceiling.
C25_LinesTrimmedAndCapped ==
    C25_Chunked =>
        /\ text # <<>>
        /\ ~IsSpace(text[1])
        /\ ~IsSpace(text[Len(text)])
        /\ C25_NoBlankLineInside
        /\ \A i \in 1..(Len(text) - 1) : ~(text[i] = NL /\ text[i + 1] = NL)
        /\ Len(text) <= text_limit

\* C25 amended: the text process_url hands to the chunker starts with a
\* non-blank character, has no two consecutive line breaks and no whitespace
\* next to a line break inside it, and is no longer than the ceiling; it ends
\* with a non-blank character unless it was cut at the ceiling, in which case
\* its last character may be a space or a line break.
C25_NoBlankLineAndCapped ==
    C25_Chunked =>
        /\ text # <<>>
        /\ ~IsSpace(text[1])
        /\ C25_NoBlankLineInside
        /\ \A i \in 1..(Len(text) - 1) : ~(text[i] = NL /\ text[i + 1] = NL)
        /\ Len(text) <= text_limit
        /\ Len(text) < text_limit => ~IsSpace(text[Len(text)])
        /\ Len(GetText(call.page)) <= text_limit => ~IsSpace(text[Len(text)])

\* a page with a blank line and padded lines, cut at the ceiling after a space
C25_Witness ==
    /\ C25_Chunked
    /\ Len(call.page.visible) > text_limit
    /\ Len(text) = text_limit
    /\ IsSpace(text[Len(text)])
    /\ result.status = "ok"

\* the CLI is at its menu and no filesystem operation has raised
C24_AtMenu == session = "cli" /\ ~fs_failed

\* C24: in a CLI run whose filesystem operations succeed, over a directory
\* that was absent or held a snapshot at the start, at the menu the store is
\* initialized exactly when the snapshot exists and both hold the same number
\* of entries; an ingestion of zero chunks into an uninitialized store ends in
\* the error of the save and leaves the directory as it was.
C24_StoreAgreesWithSnapshot ==
    C24_AtMenu =>
        /\ vector_store.init <=> disk.exists
        /\ disk.exists => (disk.valid /\ Len(disk.entries) = Count)
        /\ (/\ last.op = "save_vector_store"
            /\ prev.op = "add_documents"
            /\ ~last.pre_store.init) =>
               /\ last.ret = "ValueError: No vector store to save"
               /\ disk = last.pre_disk
               /\ ~disk.exists
               /\ ~vector_store.init

\* an ingestion of zero chunks while the store is uninitialized
C24_Witness ==
    /\ C24_AtMenu
    /\ last.op = "save_vector_store"
    /\ last.ret = "ValueError: No vector store to save"
    /\ prev = [op |-> "add_documents", ret |-> "None"]
    /\ ~last.pre_store.init
    /\ ~disk.exists

====
